---- MODULE Spec2Model ----
(***************************************************************************)
(* Model of the backend supervisor of electron/main.js (class              *)
(* BackendManager and the application code that drives it) and of the      *)
(* renderer's session channel (useWebSocket, createWebSocket and the       *)
(* TrainingSession component).                                             *)
(*                                                                         *)
(* The main process is a single-threaded event loop: every action below    *)
(* is one event-loop task (an IPC call, a timer callback, a child-process  *)
(* event, the completion of the health poll) together with the promise     *)
(* continuations it releases, which run before any other task.             *)
(***************************************************************************)
EXTENDS Integers, Sequences, FiniteSets, TLC

VARIABLES
    process,      \* this.process: 0 for null, else the index of a child in children
    isRunning,    \* this.isRunning
    retryCount,   \* this.retryCount
    children,     \* every child process spawn() has returned, in spawn order
    timers,       \* pending timers and pending waitForBackend loops, in scheduling order
    appPhase,     \* "boot", "init" (initializeApp awaits start()), "ready", "exited"
    mainWindow,   \* mainWindow !== null
    uiErrors,     \* the `retrying` flags of the 'backend-error' messages sent to the UI
    startOutcome, \* how the last start() promise to settle did: "resolved", "rejected"
    execMissing,  \* the backend executable cannot be spawned (ENOENT / EACCES)
    restarts,     \* number of backend:restart calls received so far
    quits,        \* number of quit requests made by the user so far
    poll          \* one waitForBackend() call at the grain of its loop: where
                  \* it is, the time since startTime, the failed requests so far

\* The renderer: one component that uses useApiCall.
VARIABLES
    api           \* the component is mounted, its current dependency value,
                  \* the hook's state (data and error name the request they
                  \* came from, 0 for null) and the requests issued so far

\* The renderer: one TrainingSession component with its useWebSocket hook.
VARIABLES
    mounted,       \* the TrainingSession component is mounted
    sessionId,     \* TrainingSession's sessionId state: 0 for null
    sockets,       \* every WebSocket constructed by createWebSocket, in order
    ws,            \* useWebSocket's ws state: 0 for null, else an index in sockets
    connected,     \* useWebSocket's connected state
    wsMessages,    \* useWebSocket's messages state (wsMessages in TrainingSession)
    rendered,      \* what the last render committed: the connected and ws the
                   \* callbacks closed over, and the length of wsMessages the
                   \* effects last ran for
    messages,      \* TrainingSession's chat log
    messagesCount, \* sessionStats.messagesCount: 1 + the scoring updates made
    wire,          \* the frames the client has put on the wire, in order
    delivered,     \* the 'message' events dispatched to onmessage, in order
    pushed,        \* number of frames the server has sent so far
    sendErrors,    \* number of exceptions thrown by WebSocket.send
    currentView,   \* App's currentView: "character-select" or "session"
    calls,         \* every createSession call issued so far, in order; `inst`
                   \* is the TrainingSession instance that issued the call
                   \* or, for a call of handleSelectCharacter, the instance
                   \* mounted when it settled (0: none)
    instance       \* number of TrainingSession instances mounted so far; the
                   \* mounted one is the last

svars == <<process, isRunning, retryCount, children, timers, appPhase,
           mainWindow, uiErrors, startOutcome, execMissing, restarts, quits,
           poll>>

\* the supervisor's state outside the loop of waitForBackend
mvars == <<process, isRunning, retryCount, children, timers, appPhase,
           mainWindow, uiErrors, startOutcome, execMissing, restarts, quits>>

\* the part of the renderer's state that belongs to the session-creation flow
cvars == <<currentView, calls, instance>>

fvars == <<mounted, sessionId, sockets, ws, connected, wsMessages, rendered,
           messages, messagesCount, wire, delivered, pushed, sendErrors,
           currentView, calls, instance>>

vars == <<process, isRunning, retryCount, children, timers, appPhase,
          mainWindow, uiErrors, startOutcome, execMissing, restarts, quits,
          mounted, sessionId, sockets, ws, connected, wsMessages, rendered,
          messages, messagesCount, wire, delivered, pushed, sendErrors,
          currentView, calls, instance, poll, api>>

----------------------------------------------------------------------------
(* Bounds of the model and constants of the program *)

MaxRestarts == 1

MaxQuits == 1

maxRetries == 5

RetryDelay == 3000

KillDeadline == 5000

HealthTimeout == 30000

----------------------------------------------------------------------------
(* Child processes *)

\* A child exits by itself with code 0 or 1; a child that received SIGTERM may
\* handle it (exit 0 / exit 1) or die of it (code null, "killed"); a child that
\* received SIGKILL dies of it.
ExitStatuses(sig) ==
    CASE sig = "none" -> {"exit0", "exit1"}
      [] sig = "term" -> {"exit0", "exit1", "killed"}
      [] sig = "kill" -> {"killed"}

\* an 'exit' handler that takes every exit for a failure
CodeIgnored(status) == TRUE

\* the handler's test `code !== 0`: a signal death reports code null
CodeNonZero(status) == status # "exit0"

Alive(cs) == {c \in DOMAIN cs : cs[c].st = "alive"}

\* child.kill(signal): delivered only to a child that is still alive;
\* SIGKILL overrides an earlier SIGTERM
Signal(cs, c, sig) ==
    IF c \in DOMAIN cs /\ cs[c].st = "alive" /\ cs[c].sig # "kill"
    THEN [cs EXCEPT ![c].sig = sig]
    ELSE cs

----------------------------------------------------------------------------
(* Timers *)

Duration(kind) ==
    CASE kind = "retry" -> RetryDelay
      [] kind = "kill"  -> KillDeadline
      [] kind = "probe" -> HealthTimeout

\* A timer cannot fire before a timer that was scheduled earlier with a delay
\* that is not longer.
CanFire(ts, i) == \A j \in 1..(i - 1) : Duration(ts[j].kind) > Duration(ts[i].kind)

Remove(seq, i) == SubSeq(seq, 1, i - 1) \o SubSeq(seq, i + 1, Len(seq))

RetryTimer == [kind |-> "retry", child |-> 0, by |-> "retry",
               resolved |-> FALSE, stopped |-> FALSE]

KillTimer(c, by) == [kind |-> "kill", child |-> c, by |-> by,
                     resolved |-> FALSE, stopped |-> FALSE]

\* a start() call suspended in waitForBackend(); of its caller only
\* initializeApp acts on the outcome
Probe(c, by) == [kind |-> "probe", child |-> c,
                 by |-> IF by = "init" THEN "init" ELSE "other",
                 resolved |-> FALSE, stopped |-> FALSE]

NumKind(ts, kind) == Cardinality({i \in DOMAIN ts : ts[i].kind = kind})

----------------------------------------------------------------------------
(* The supervisor's state as a record, so that the synchronous code run by *)
(* one event-loop task can be composed.                                    *)

St == [process |-> process, isRunning |-> isRunning, retryCount |-> retryCount,
       children |-> children, timers |-> timers, appPhase |-> appPhase,
       mainWindow |-> mainWindow, uiErrors |-> uiErrors,
       startOutcome |-> startOutcome]

\* the main process does not touch the renderer's state
Commit(s) ==
    /\ process' = s.process
    /\ isRunning' = s.isRunning
    /\ retryCount' = s.retryCount
    /\ children' = s.children
    /\ timers' = s.timers
    /\ appPhase' = s.appPhase
    /\ mainWindow' = s.mainWindow
    /\ uiErrors' = s.uiErrors
    /\ startOutcome' = s.startOutcome
    /\ UNCHANGED <<fvars, poll, api>>

\* handleBackendError(): notify the UI when a window exists
handleBackendError(s) ==
    IF s.mainWindow
    THEN [s EXCEPT !.uiErrors = Append(@, s.retryCount < maxRetries)]
    ELSE s

\* start() up to its first suspension: the isRunning guard, spawn(), the
\* handlers, and the first call of waitForBackend().  A failed spawn returns
\* a child object that emits 'error' (and never 'exit') on the next tick.
start(s, by) ==
    IF s.isRunning THEN [s EXCEPT !.startOutcome = "resolved"]
    ELSE LET c  == Len(s.children) + 1
             s1 == [s EXCEPT !.children = Append(@, [st  |-> IF execMissing THEN "spawnerr"
                                                                 ELSE "alive",
                                                      sig |-> "none"]),
                              !.process = c,
                              !.timers = Append(@, Probe(c, by))]
         IN  IF execMissing THEN handleBackendError(s1) ELSE s1

\* retry() with the timer forgotten
retryWithoutTimer(s) ==
    [s EXCEPT !.retryCount = @ + 1]

\* retry()
retry(s) ==
    [s EXCEPT !.retryCount = @ + 1,
              !.timers = Append(@, RetryTimer)]

\* Child c has terminated with `status`.  The model keeps of a dead child only
\* that it is dead: its record becomes "exited", and the timers' references to
\* it (an 'exit' handler of stop() that has now run, the child a start() call
\* spawned) become 0.
Exited(s, c) ==
    [s EXCEPT !.children[c] = [st |-> "exited", sig |-> "none"]]

Forget(s, c) ==
    [s EXCEPT !.timers = [i \in DOMAIN @ |->
                             IF @[i].child = c THEN [@[i] EXCEPT !.child = 0] ELSE @[i]]]

\* the 'exit' handler with `<=` for `<` in the retry test
OnExitOffByOne(s, status) ==
    LET s1 == [s EXCEPT !.isRunning = FALSE]
    IN  IF CodeNonZero(status) /\ s1.retryCount <= maxRetries THEN retry(s1) ELSE s1

\* the 'exit' handler registered by start()
OnExit(s, status) ==
    LET s1 == [s EXCEPT !.isRunning = FALSE]
    IN  IF CodeNonZero(status) /\ s1.retryCount < maxRetries THEN retry(s1) ELSE s1

\* stop() with a tracked process, up to its suspension: the 'exit' handler on
\* this.process, SIGTERM, and the kill-deadline timer.  Every retry timer
\* that is pending at this point is marked as one that stop() found pending.
stop(s, by) ==
    [s EXCEPT !.children = Signal(@, s.process, "term"),
              !.timers = [i \in DOMAIN @ |->
                             IF @[i].kind = "retry" THEN [@[i] EXCEPT !.stopped = TRUE]
                             ELSE @[i]]
                         \o <<KillTimer(s.process, by)>>]

\* app.quit(): emits 'before-quit'; the handler defers the quit behind stop()
\* while isRunning, otherwise the application exits.
beforeQuit(s) ==
    IF s.isRunning /\ s.process # 0 THEN stop(s, "quit")
    ELSE [s EXCEPT !.appPhase = "exited"]

\* what runs when a stop() promise resolves, by who awaited it
AfterStop(s, by) ==
    IF s.appPhase = "exited" THEN s
    ELSE IF by = "restart" THEN start(s, "restart")
    ELSE beforeQuit(s)

\* initializeApp quitting when start() rejects
AfterStartQuitsOnFailure(s, by, outcome) ==
    LET s1 == [s EXCEPT !.startOutcome = outcome]
    IN  IF by = "init" /\ s1.appPhase = "init"
        THEN IF outcome = "rejected"
             THEN [s1 EXCEPT !.appPhase = "exited"]
             ELSE [s1 EXCEPT !.appPhase = "ready", !.mainWindow = TRUE]
        ELSE s1

\* what runs when a start() promise settles: initializeApp goes on to create
\* the main window whether start() resolved or rejected
AfterStart(s, by, outcome) ==
    LET s1 == [s EXCEPT !.startOutcome = outcome]
    IN  IF by = "init" /\ s1.appPhase = "init"
        THEN [s1 EXCEPT !.appPhase = "ready", !.mainWindow = TRUE]
        ELSE s1

RECURSIVE ResolveStops(_, _, _)
\* the 'exit' handlers registered by stop() calls on child c, in registration
\* order from timer index i on: each sets isRunning = false and resolves its
\* promise; the continuations of the promises run in the same order.
ResolveStops(s, c, i) ==
    IF i > Len(s.timers) THEN s
    ELSE LET t == s.timers[i]
         IN  IF t.kind = "kill" /\ t.child = c /\ ~t.resolved
             THEN ResolveStops(
                      AfterStop([s EXCEPT !.timers[i].resolved = TRUE,
                                          !.isRunning = FALSE], t.by),
                      c, i + 1)
             ELSE ResolveStops(s, c, i + 1)

----------------------------------------------------------------------------
(* Actions *)

\* useApiCall has not been called: no component uses it yet
NoApi == [mounted |-> FALSE, dep |-> "none", data |-> 0, loading |-> TRUE, error |-> 0,
          reqs |-> <<>>]

\* no waitForBackend() loop has been entered
NoPoll == [phase |-> "idle", elapsed |-> 0, failed |-> 0]

Init ==
    /\ process = 0
    /\ isRunning = FALSE
    /\ retryCount = 0
    /\ children = <<>>
    /\ timers = <<>>
    /\ appPhase = "boot"
    /\ mainWindow = FALSE
    /\ uiErrors = <<>>
    /\ startOutcome = "none"
    /\ execMissing \in BOOLEAN
    /\ restarts = 0
    /\ quits = 0
    /\ poll = NoPoll
    /\ api = NoApi
    /\ mounted = TRUE
    /\ sessionId = 0
    /\ sockets = <<>>
    /\ ws = 0
    /\ connected = FALSE
    /\ wsMessages = <<>>
    /\ rendered = [connected |-> FALSE, ws |-> 0, len |-> 0]
    /\ messages = <<[sender |-> "character", seq |-> 0]>>
    /\ messagesCount = 1
    /\ wire = <<>>
    /\ delivered = <<>>
    /\ pushed = 0
    /\ sendErrors = 0
    /\ currentView = "session"
    /\ calls = <<[by |-> "init", inst |-> 1, st |-> "inflight", id |-> 0]>>
    /\ instance = 1

\* app.whenReady().then(initializeApp): the first start()
InitializeApp ==
    /\ appPhase = "boot"
    /\ Commit(start([St EXCEPT !.appPhase = "init"], "init"))
    /\ UNCHANGED <<execMissing, restarts, quits>>

\* ipcMain.handle('backend:restart'): await stop(); await start()
Restart ==
    /\ appPhase = "ready"
    /\ restarts < MaxRestarts
    /\ restarts' = restarts + 1
    /\ Commit(IF process = 0 THEN start(St, "restart") ELSE stop(St, "restart"))
    /\ UNCHANGED <<execMissing, quits>>

\* the user asks to quit: 'before-quit'
QuitRequest ==
    /\ appPhase \in {"init", "ready"}
    /\ quits < MaxQuits
    /\ quits' = quits + 1
    /\ Commit(beforeQuit(St))
    /\ UNCHANGED <<execMissing, restarts>>

\* child c terminates and its 'exit' event is delivered
ChildExit(c, status) ==
    /\ appPhase # "exited"
    /\ c \in Alive(children)
    /\ status \in ExitStatuses(children[c].sig)
    /\ Commit(Forget(ResolveStops(OnExit(Exited(St, c), status), c, 1), c))
    /\ UNCHANGED <<execMissing, restarts, quits>>

\* the retry timer set by retry() fires
RetryFire(i) ==
    /\ appPhase # "exited"
    /\ timers[i].kind = "retry"
    /\ CanFire(timers, i)
    /\ Commit(start([St EXCEPT !.timers = Remove(@, i)], "retry"))
    /\ UNCHANGED <<execMissing, restarts, quits>>

\* the kill-deadline callback with resolve() left to the 'exit' handler: the
\* timer only sends SIGKILL and the promise stays pending
KillFireAwaitsExit(i) ==
    /\ appPhase # "exited"
    /\ timers[i].kind = "kill"
    /\ CanFire(timers, i)
    /\ LET t  == timers[i]
           s1 == [St EXCEPT !.children = IF process # 0 THEN Signal(@, process, "kill") ELSE @]
       IN  Commit(IF t.resolved THEN [s1 EXCEPT !.timers = Remove(@, i)] ELSE s1)
    /\ UNCHANGED <<execMissing, restarts, quits>>

\* the kill-deadline timer set by stop() fires
KillFire(i) ==
    /\ appPhase # "exited"
    /\ timers[i].kind = "kill"
    /\ CanFire(timers, i)
    /\ LET t  == timers[i]
           s1 == [St EXCEPT !.timers = Remove(@, i),
                            !.children = IF process # 0 THEN Signal(@, process, "kill") ELSE @]
       IN  Commit(IF t.resolved THEN s1 ELSE AfterStop(s1, t.by))
    /\ UNCHANGED <<execMissing, restarts, quits>>

\* the probe's success with `this.isRunning = true` forgotten
ProbeSuccessNoFlag(i) ==
    /\ appPhase # "exited"
    /\ timers[i].kind = "probe"
    /\ Alive(children) # {}
    /\ Commit(AfterStart([St EXCEPT !.timers = Remove(@, i)], timers[i].by, "resolved"))
    /\ UNCHANGED <<execMissing, restarts, quits>>

\* the probe's success with the retry counter reset as well
ProbeSuccessResetsCounter(i) ==
    /\ appPhase # "exited"
    /\ timers[i].kind = "probe"
    /\ Alive(children) # {}
    /\ Commit(AfterStart([St EXCEPT !.timers = Remove(@, i), !.isRunning = TRUE,
                                    !.retryCount = 0],
                         timers[i].by, "resolved"))
    /\ UNCHANGED <<execMissing, restarts, quits>>

\* a poll of waitForBackend() gets a 2xx answer: some backend is serving
ProbeSuccess(i) ==
    /\ appPhase # "exited"
    /\ timers[i].kind = "probe"
    /\ Alive(children) # {}
    /\ Commit(AfterStart([St EXCEPT !.timers = Remove(@, i), !.isRunning = TRUE],
                         timers[i].by, "resolved"))
    /\ UNCHANGED <<execMissing, restarts, quits>>

\* waitForBackend() runs out of time and throws
ProbeTimeout(i) ==
    /\ appPhase # "exited"
    /\ timers[i].kind = "probe"
    /\ CanFire(timers, i)
    /\ Commit(AfterStart([St EXCEPT !.timers = Remove(@, i)], timers[i].by, "rejected"))
    /\ UNCHANGED <<execMissing, restarts, quits>>

Next ==
    \/ InitializeApp
    \/ Restart
    \/ \E c \in DOMAIN children : \E status \in {"exit0", "exit1", "killed"} :
           ChildExit(c, status)
    \/ \E i \in DOMAIN timers : RetryFire(i)
    \/ \E i \in DOMAIN timers : KillFire(i)
    \/ \E i \in DOMAIN timers : ProbeSuccess(i)
    \/ \E i \in DOMAIN timers : ProbeTimeout(i)

\* The supervisor driven by initializeApp, backend:restart, the child
\* processes and the timers.
Spec == Init /\ [][Next]_vars

\* The crash scenario: nobody calls stop(), and every child that terminates
\* crashes with exit code 1.
NextCrash ==
    \/ InitializeApp
    \/ \E c \in DOMAIN children : ChildExit(c, "exit1")
    \/ \E i \in DOMAIN timers : RetryFire(i)
    \/ \E i \in DOMAIN timers : ProbeSuccess(i)
    \/ \E i \in DOMAIN timers : ProbeTimeout(i)

SpecCrash == Init /\ [][NextCrash]_vars

\* The event loop runs every timer callback that is due.
FairCrash == SpecCrash /\ WF_vars(\E i \in DOMAIN timers : RetryFire(i))

\* The supervisor with the user's quit requests as well.
NextQuit == Next \/ QuitRequest

SpecQuit == Init /\ [][NextQuit]_vars

----------------------------------------------------------------------------
(* Derived notions used by the properties *)

\* the pending start() calls whose spawned child is still alive: the
\* supervisor is Starting for that child
Starting(cs, ts) == {i \in DOMAIN ts : ts[i].kind = "probe" /\ ts[i].child \in Alive(cs)}

\* number of children spawned by the step
Spawned == Len(children') - Len(children)

----------------------------------------------------------------------------
(* Properties *)

\* C1: in every reachable state at most one child process spawned by the
\* BackendManager instance is alive.  A child that has been sent SIGKILL and
\* whose exit has not been reported yet is not counted.
C1_AtMostOneLiveChild ==
    Cardinality({c \in Alive(children) : children[c].sig # "kill"}) <= 1

\* C2: a start() call that finds the supervisor Starting (an earlier start()
\* has spawned a child, the child is alive and that start() still awaits the
\* health probe) does not spawn: a step spawns at most one child, and when it
\* has spawned one, no other live child is still being probed for.
C2_StartSerialized ==
    [][Spawned > 0 =>
          /\ Spawned = 1
          /\ \A i \in Starting(children', timers') : timers'[i].child = Len(children')]_vars

\* C3: stop() cancels the pending retry: a retry timer that was pending when
\* stop() was called never fires.
C3_StopCancelsRetry ==
    [][\A i \in DOMAIN timers : timers[i].stopped => ~RetryFire(i)]_vars

\* C4: when a child exits because stop() signalled it and the exit is reported
\* with a null or non-zero code, the exit observer neither increments the
\* retry counter nor schedules a start().
C4_StopExitNotRetried ==
    [][\A c \in Alive(children) : \A status \in {"exit1", "killed"} :
          (children[c].sig # "none" /\ ChildExit(c, status)) =>
              /\ retryCount' = retryCount
              /\ NumKind(timers', "retry") = NumKind(timers, "retry")]_vars

\* C5: the retry counter never exceeds maxRetries, and it changes only when
\* a retry is scheduled, by exactly 1 for exactly one new retry timer.
C5_RetryCounterBounded ==
    /\ [](retryCount <= maxRetries)
    /\ [][(retryCount' # retryCount \/ NumKind(timers', "retry") > NumKind(timers, "retry")) =>
             /\ retryCount' = retryCount + 1
             /\ NumKind(timers', "retry") = NumKind(timers, "retry") + 1]_vars

\* the counter has reached its bound with the last retry still pending
C5_Witness == retryCount = maxRetries /\ NumKind(timers, "retry") = 1

\* C6: each unexpected exit with a non-zero code observed while the counter is
\* below maxRetries schedules exactly one start(), and the k-th scheduled
\* start() is eventually invoked and spawns child k + 1.
C6_RetryScheduledAndInvoked ==
    /\ [][\A c \in Alive(children) :
             (children[c].sig = "none" /\ retryCount < maxRetries /\ ChildExit(c, "exit1")) =>
                 NumKind(timers', "retry") = NumKind(timers, "retry") + 1]_vars
    /\ \A k \in 1..maxRetries : (retryCount >= k) ~> (Len(children) >= k + 1)

\* two retries were scheduled and both have been invoked
C6_Witness == retryCount = 2 /\ NumKind(timers, "retry") = 0 /\ Len(children) = 3

\* C7: an unexpected exit with a non-zero code while the counter has reached
\* maxRetries is surfaced to the UI (a 'backend-error' message is sent to the
\* window) and schedules no start().
C7_ExhaustionSurfaced ==
    [][\A c \in Alive(children) :
          (/\ children[c].sig = "none"
           /\ retryCount >= maxRetries
           /\ mainWindow
           /\ ChildExit(c, "exit1")) =>
              /\ Len(uiErrors') = Len(uiErrors) + 1
              /\ NumKind(timers', "retry") = NumKind(timers, "retry")]_vars

\* C8: start() settles with an unambiguous state: when it resolves on the
\* probe's success the supervisor is Running, and when it rejects on the
\* timeout isRunning is not true.  (The counter at that point is C9's.)
C8_StartOutcome ==
    [][\A i \in DOMAIN timers :
          /\ ProbeSuccess(i) => isRunning'
          /\ ProbeTimeout(i) => ~isRunning']_vars

C10_TwoCrashesThenRunning ==
    (/\ Len(children) = 3
     /\ children[1].st = "exited" /\ children[2].st = "exited"
     /\ children[3].st = "alive"
     /\ isRunning) => retryCount = 2

C10_Witness ==
    /\ maxRetries = 5
    /\ Len(children) = 3
    /\ children[1].st = "exited" /\ children[2].st = "exited"
    /\ children[3].st = "alive"
    /\ isRunning
    /\ retryCount = 2

\* an unresolved stop() promise awaited by `by` whose 'exit' handler sits on
\* child c
AwaitsExit(ts, c, by) ==
    \E i \in DOMAIN ts : ts[i].kind = "kill" /\ ts[i].child = c /\ ts[i].by = by /\ ~ts[i].resolved

\* the step on which backend:restart's `await backendManager.start()` runs:
\* its stop() promise resolves, on the child's exit or on the kill deadline
RestartStarts ==
    \/ \E i \in DOMAIN timers :
           timers[i].kind = "kill" /\ timers[i].by = "restart" /\ ~timers[i].resolved /\ KillFire(i)
    \/ \E c \in Alive(children) : \E status \in {"exit0", "exit1", "killed"} :
           AwaitsExit(timers, c, "restart") /\ ChildExit(c, status)

\* C11: a fresh explicit start() resets the retry counter: after the step on
\* which backend:restart invokes start() the counter is 0.
C11_ExplicitStartResets ==
    [][RestartStarts => retryCount' = 0]_vars

\* The stop scenario: no child terminates by itself; a child terminates only
\* after stop() has signalled it (it may also ignore SIGTERM until SIGKILL).
NextStop ==
    \/ InitializeApp
    \/ Restart
    \/ \E c \in DOMAIN children : \E status \in {"exit0", "exit1", "killed"} :
           children[c].sig # "none" /\ ChildExit(c, status)
    \/ \E i \in DOMAIN timers : RetryFire(i)
    \/ \E i \in DOMAIN timers : KillFire(i)
    \/ \E i \in DOMAIN timers : ProbeSuccess(i)
    \/ \E i \in DOMAIN timers : ProbeTimeout(i)

SpecStop == Init /\ [][NextStop]_vars

\* The event loop runs every timer callback that is due: the retry timers
\* and the kill-deadline timers.
FairStop ==
    /\ SpecStop
    /\ WF_vars(\E i \in DOMAIN timers : RetryFire(i))
    /\ WF_vars(\E i \in DOMAIN timers : KillFire(i))

\* the stop() calls whose promise has not resolved yet
PendingStops(ts) == {i \in DOMAIN ts : ts[i].kind = "kill" /\ ~ts[i].resolved}

\* C12: every stop() invocation eventually resolves, and it resolves on the
\* step on which its kill-deadline timer fires when the child has not
\* reported its exit by then, whether or not the signalled child is still
\* alive after that step.
C12_StopResolves ==
    /\ (PendingStops(timers) # {}) ~> (PendingStops(timers) = {})
    /\ [][\A i \in PendingStops(timers) :
             KillFire(i) => Cardinality(PendingStops(timers')) < Cardinality(PendingStops(timers))]_vars

\* stop() has resolved on the kill deadline while the child that ignored
\* SIGTERM has not reported its exit: it has been sent SIGKILL
C12_Witness ==
    /\ restarts > 0
    /\ PendingStops(timers) = {}
    /\ NumKind(timers, "kill") = 0
    /\ \E c \in Alive(children) : children[c].sig = "kill"

\* C13: stop() with no live process tracked (never started, or the child has
\* already reported its exit) resolves immediately: backend:restart called in such a
\* state leaves no stop() promise pending and schedules no kill-deadline
\* timer.
C13_StopIdempotent ==
    [][(Restart /\ (process = 0 \/ children[process].st = "exited")) =>
          /\ PendingStops(timers') = {}
          /\ NumKind(timers', "kill") = NumKind(timers, "kill")]_vars

\* C14: when the executable cannot be spawned, start() rejects with the spawn
\* error (it is not left waiting for the health probe of the child that
\* failed to spawn), no retry is scheduled and the supervisor is not Running.
C14_SpawnErrorRejects ==
    /\ \A i \in DOMAIN timers :
           (timers[i].kind = "probe" /\ timers[i].child # 0) =>
               children[timers[i].child].st # "spawnerr"
    /\ execMissing => (NumKind(timers, "retry") = 0 /\ ~isRunning /\ retryCount = 0)

\* C15: the application does not exit while a child spawned by the supervisor
\* is alive and has not been signalled by stop().
C15_QuitStopsBackend ==
    appPhase = "exited" => \A c \in Alive(children) : children[c].sig # "none"

----------------------------------------------------------------------------
(* The renderer: services/api.ts (createWebSocket), hooks/useApi.ts        *)
(* (useWebSocket) and App.tsx (TrainingSession).  Every action is one task *)
(* of the renderer's event loop: a WebSocket event, a user event, or a     *)
(* React render with the effects it runs.  State updates made by a task    *)
(* are visible to callbacks and effects only after the next render.        *)

MaxFrames == 3

MaxSends == 2

\* the data of a 'message' event: a JSON text carrying a frame, or a text
\* that JSON.parse rejects
FrameData(n) ==
    {[json |-> TRUE, type |-> t, seq |-> n] : t \in {"ai_response", "error"}}
        \cup {[json |-> FALSE, type |-> "none", seq |-> n]}

\* JSON.parse(event.data): throws on a text that is not JSON
Parses(data) == data.json

Parsed(data) == [type |-> data.type, seq |-> data.seq]

\* apiService.createWebSocket(sessionId): a socket with the service's handlers
createWebSocket(sid, token) ==
    [sid |-> sid, state |-> "connecting", token |-> token,
     onopen |-> "auth", onclose |-> "log", onerror |-> "log", onmessage |-> "none",
     inst |-> 0, inbox |-> <<>>]

\* the handler assignments of useWebSocket's effect: an assignment to
\* onopen / onclose / onerror replaces the handler set by createWebSocket.
\* The handlers close over the state setters of the component instance
\* `inst` that runs the effect.
AssignHandlers(sock, inst) ==
    [sock EXCEPT !.onopen = "hook", !.onclose = "hook", !.onerror = "hook",
                 !.onmessage = "hook", !.inst = inst]

\* handlers whose state setters reach whatever instance is mounted
LiveInAnyInstance(k) == mounted

\* a state setter called by a handler of socket k has an effect only while
\* the component instance it belongs to is mounted
Live(k) == mounted /\ sockets[k].inst = instance

\* WebSocket.send(data) on socket k: transmitted when OPEN, an exception when
\* CONNECTING, silently discarded when CLOSING or CLOSED
SendOnWire(k, type) ==
    IF sockets[k].state = "open" THEN Append(wire, [sock |-> k, type |-> type]) ELSE wire

SendThrows(k) == sockets[k].state = "connecting"

\* WebSocket.close()
Close(sock) ==
    IF sock.state \in {"connecting", "open"}
    THEN [sock EXCEPT !.state = "closing", !.inbox = <<>>]
    ELSE sock

NumUser(ms) == Cardinality({i \in DOMAIN ms : ms[i].sender = "user"})

\* the session ids handed out by the backend: a fresh one for every call
\* that succeeds
NumOk(cs) == Cardinality({i \in DOMAIN cs : cs[i].st = "ok"})

NumBy(cs, by) == Cardinality({i \in DOMAIN cs : cs[i].by = by})

InFlight(cs) == {i \in DOMAIN cs : cs[i].st = "inflight"}

\* initSession opening the channel although its instance has unmounted
InitSessionAfterUnmount(i) ==
    /\ i \in InFlight(calls)
    /\ calls[i].by = "init"
    /\ LET id == NumOk(calls) + 1
       IN  /\ calls' = [calls EXCEPT ![i].st = "ok", ![i].id = id]
           /\ IF calls[i].inst = instance /\ sessionId = 0
              THEN /\ sessionId' = id
                   /\ \E token \in BOOLEAN :
                          sockets' = Append(sockets,
                                            AssignHandlers(createWebSocket(id, token), instance))
              ELSE UNCHANGED <<sessionId, sockets>>
    /\ UNCHANGED <<mounted, ws, connected, wsMessages, rendered, messages,
                   messagesCount, wire, delivered, pushed, sendErrors,
                   currentView, instance>>
    /\ UNCHANGED <<svars, api>>

\* initSession: the createSession() call i issued on mount succeeds,
\* setSessionId(session.id), and the render that follows runs useWebSocket's
\* effect for the new sessionId.  setSessionId has no effect when the
\* instance that issued the call is no longer mounted.
InitSession(i) ==
    /\ i \in InFlight(calls)
    /\ calls[i].by = "init"
    /\ LET id == NumOk(calls) + 1
       IN  /\ calls' = [calls EXCEPT ![i].st = "ok", ![i].id = id]
           /\ IF mounted /\ calls[i].inst = instance /\ sessionId = 0
              THEN /\ sessionId' = id
                   /\ \E token \in BOOLEAN :
                          sockets' = Append(sockets,
                                            AssignHandlers(createWebSocket(id, token), instance))
              ELSE UNCHANGED <<sessionId, sockets>>
    /\ UNCHANGED <<mounted, ws, connected, wsMessages, rendered, messages,
                   messagesCount, wire, delivered, pushed, sendErrors,
                   currentView, instance>>
    /\ UNCHANGED <<svars, api>>

\* initSession's failure with a useWebSocket effect that does not return
\* early on a null sessionId: a socket is opened for no session
InitSessionFailsOpensSocket(i) ==
    /\ i \in InFlight(calls)
    /\ calls[i].by = "init"
    /\ calls' = [calls EXCEPT ![i].st = "failed"]
    /\ sockets' = IF mounted /\ calls[i].inst = instance
                  THEN Append(sockets, AssignHandlers(createWebSocket(0, FALSE), instance))
                  ELSE sockets
    /\ UNCHANGED <<mounted, sessionId, ws, connected, wsMessages, rendered,
                   messages, messagesCount, wire, delivered, pushed, sendErrors,
                   currentView, instance>>
    /\ UNCHANGED <<svars, api>>

\* initSession: the createSession() call i issued on mount fails; the error
\* thrown by createSession is caught and logged
InitSessionFails(i) ==
    /\ i \in InFlight(calls)
    /\ calls[i].by = "init"
    /\ calls' = [calls EXCEPT ![i].st = "failed"]
    /\ UNCHANGED <<mounted, sessionId, sockets, ws, connected, wsMessages, rendered,
                   messages, messagesCount, wire, delivered, pushed, sendErrors,
                   currentView, instance>>
    /\ UNCHANGED <<svars, api>>

\* the transport of socket k is established: 'open' event
TransportOpen(k) ==
    /\ sockets[k].state = "connecting"
    /\ sockets' = [sockets EXCEPT ![k].state = "open"]
    /\ IF sockets[k].onopen = "hook" /\ Live(k)
       THEN connected' = TRUE /\ ws' = k
       ELSE UNCHANGED <<connected, ws>>
    /\ wire' = IF sockets[k].onopen = "auth" /\ sockets[k].token
               THEN Append(wire, [sock |-> k, type |-> "auth"])
               ELSE wire
    /\ UNCHANGED <<mounted, sessionId, wsMessages, rendered, messages,
                   messagesCount, delivered, pushed, sendErrors>>
    /\ UNCHANGED <<svars, cvars, api>>

\* the connection of socket k fails: 'error' event; 'close' follows
TransportError(k) ==
    /\ sockets[k].state \in {"connecting", "open"}
    /\ sockets' = [sockets EXCEPT ![k].state = "closing", ![k].inbox = <<>>]
    /\ IF sockets[k].onerror = "hook" /\ Live(k)
       THEN connected' = FALSE
       ELSE UNCHANGED connected
    /\ UNCHANGED <<mounted, sessionId, ws, wsMessages, rendered, messages,
                   messagesCount, wire, delivered, pushed, sendErrors>>
    /\ UNCHANGED <<svars, cvars, api>>

\* onclose opening a new socket for the same session id
TransportCloseReconnects(k) ==
    /\ sockets[k].state \in {"open", "closing"}
    /\ sockets' = Append([sockets EXCEPT ![k].state = "closed", ![k].inbox = <<>>],
                         AssignHandlers(createWebSocket(sockets[k].sid, sockets[k].token),
                                        sockets[k].inst))
    /\ IF sockets[k].onclose = "hook" /\ Live(k)
       THEN connected' = FALSE /\ ws' = 0
       ELSE UNCHANGED <<connected, ws>>
    /\ UNCHANGED <<mounted, sessionId, wsMessages, rendered, messages,
                   messagesCount, wire, delivered, pushed, sendErrors>>
    /\ UNCHANGED <<svars, cvars, api>>

\* the connection of socket k is closed (by the server, after an error, or
\* after close()): 'close' event
TransportClose(k) ==
    /\ sockets[k].state \in {"open", "closing"}
    /\ sockets' = [sockets EXCEPT ![k].state = "closed", ![k].inbox = <<>>]
    /\ IF sockets[k].onclose = "hook" /\ Live(k)
       THEN connected' = FALSE /\ ws' = 0
       ELSE UNCHANGED <<connected, ws>>
    /\ UNCHANGED <<mounted, sessionId, wsMessages, rendered, messages,
                   messagesCount, wire, delivered, pushed, sendErrors>>
    /\ UNCHANGED <<svars, cvars, api>>

\* the backend sends a frame on connection k
ServerPush(k, data) ==
    /\ sockets[k].state = "open"
    /\ pushed < MaxFrames
    /\ data \in FrameData(pushed + 1)
    /\ pushed' = pushed + 1
    /\ sockets' = [sockets EXCEPT ![k].inbox = Append(@, data)]
    /\ UNCHANGED <<mounted, sessionId, ws, connected, wsMessages, rendered,
                   messages, messagesCount, wire, delivered, sendErrors>>
    /\ UNCHANGED <<svars, cvars, api>>

\* onmessage putting the new message in front of the log
OnMessagePrepends(k) ==
    /\ sockets[k].state = "open"
    /\ sockets[k].inbox # <<>>
    /\ LET data == Head(sockets[k].inbox)
       IN  /\ sockets' = [sockets EXCEPT ![k].inbox = Tail(@)]
           /\ delivered' = Append(delivered, [sock |-> k, data |-> data])
           /\ wsMessages' = IF sockets[k].onmessage = "hook" /\ Live(k) /\ Parses(data)
                            THEN <<Parsed(data)>> \o wsMessages
                            ELSE wsMessages
    /\ UNCHANGED <<mounted, sessionId, ws, connected, rendered, messages,
                   messagesCount, wire, pushed, sendErrors>>
    /\ UNCHANGED <<svars, cvars, api>>

\* onmessage taking a frame that does not parse for a failure of the channel
OnMessageFailsOnBadFrame(k) ==
    /\ sockets[k].state = "open"
    /\ sockets[k].inbox # <<>>
    /\ LET data == Head(sockets[k].inbox)
       IN  /\ sockets' = [sockets EXCEPT ![k].inbox = Tail(@)]
           /\ delivered' = Append(delivered, [sock |-> k, data |-> data])
           /\ wsMessages' = IF sockets[k].onmessage = "hook" /\ Live(k) /\ Parses(data)
                            THEN Append(wsMessages, Parsed(data))
                            ELSE wsMessages
           /\ connected' = IF sockets[k].onmessage = "hook" /\ Live(k) /\ ~Parses(data)
                           THEN FALSE
                           ELSE connected
    /\ UNCHANGED <<mounted, sessionId, ws, rendered, messages,
                   messagesCount, wire, pushed, sendErrors>>
    /\ UNCHANGED <<svars, cvars, api>>

\* the next frame received on socket k is dispatched: onmessage
OnMessage(k) ==
    /\ sockets[k].state = "open"
    /\ sockets[k].inbox # <<>>
    /\ LET data == Head(sockets[k].inbox)
       IN  /\ sockets' = [sockets EXCEPT ![k].inbox = Tail(@)]
           /\ delivered' = Append(delivered, [sock |-> k, data |-> data])
           /\ wsMessages' = IF sockets[k].onmessage = "hook" /\ Live(k) /\ Parses(data)
                            THEN Append(wsMessages, Parsed(data))
                            ELSE wsMessages
    /\ UNCHANGED <<mounted, sessionId, ws, connected, rendered, messages,
                   messagesCount, wire, pushed, sendErrors>>
    /\ UNCHANGED <<svars, cvars, api>>

\* React renders TrainingSession with the pending state updates and runs the
\* effect on [wsMessages] when wsMessages has changed since the last render
Render ==
    /\ mounted
    /\ rendered # [connected |-> connected, ws |-> ws, len |-> Len(wsMessages)]
    /\ rendered' = [connected |-> connected, ws |-> ws, len |-> Len(wsMessages)]
    /\ IF Len(wsMessages) # rendered.len /\ Len(wsMessages) > 0
          /\ wsMessages[Len(wsMessages)].type = "ai_response"
       THEN /\ messages' = Append(messages, [sender |-> "character",
                                             seq |-> wsMessages[Len(wsMessages)].seq])
            /\ messagesCount' = messagesCount + 1
       ELSE UNCHANGED <<messages, messagesCount>>
    /\ UNCHANGED <<mounted, sessionId, sockets, ws, connected, wsMessages,
                   wire, delivered, pushed, sendErrors>>
    /\ UNCHANGED <<svars, cvars, api>>

\* handleSendMessage sending on the session's socket without looking at
\* `connected`
handleSendMessageUnguarded ==
    /\ mounted
    /\ NumUser(messages) < MaxSends
    /\ messages' = Append(messages, [sender |-> "user", seq |-> 0])
    /\ IF sockets # <<>>
       THEN /\ wire' = SendOnWire(Len(sockets), "user_message")
            /\ sendErrors' = IF SendThrows(Len(sockets)) THEN sendErrors + 1 ELSE sendErrors
       ELSE UNCHANGED <<wire, sendErrors>>
    /\ UNCHANGED <<mounted, sessionId, sockets, ws, connected, wsMessages,
                   rendered, messagesCount, delivered, pushed>>
    /\ UNCHANGED <<svars, cvars, api>>

\* handleSendMessage with a non-empty input: the chat entry, then
\* sendWsMessage when the rendered `connected` is true
handleSendMessage ==
    /\ mounted
    /\ NumUser(messages) < MaxSends
    /\ messages' = Append(messages, [sender |-> "user", seq |-> 0])
    /\ IF rendered.connected /\ rendered.ws # 0
       THEN /\ wire' = SendOnWire(rendered.ws, "user_message")
            /\ sendErrors' = IF SendThrows(rendered.ws) THEN sendErrors + 1 ELSE sendErrors
       ELSE UNCHANGED <<wire, sendErrors>>
    /\ UNCHANGED <<mounted, sessionId, sockets, ws, connected, wsMessages,
                   rendered, messagesCount, delivered, pushed>>
    /\ UNCHANGED <<svars, cvars, api>>

\* handleEndSession with an effect that returns no cleanup: the socket is
\* left as it is
UnmountLeavesSocket ==
    /\ mounted
    /\ mounted' = FALSE
    /\ currentView' = "character-select"
    /\ UNCHANGED <<sessionId, sockets, ws, connected, wsMessages, rendered, messages,
                   messagesCount, wire, delivered, pushed, sendErrors,
                   calls, instance>>
    /\ UNCHANGED <<svars, api>>

\* handleEndSession: the view changes, TrainingSession unmounts and the
\* effect's cleanup closes the socket
Unmount ==
    /\ mounted
    /\ mounted' = FALSE
    /\ currentView' = "character-select"
    /\ sockets' = [k \in DOMAIN sockets |-> Close(sockets[k])]
    /\ UNCHANGED <<sessionId, ws, connected, wsMessages, rendered, messages,
                   messagesCount, wire, delivered, pushed, sendErrors,
                   calls, instance>>
    /\ UNCHANGED <<svars, api>>

NextChannel ==
    \/ \E i \in DOMAIN calls : InitSession(i)
    \/ \E i \in DOMAIN calls : InitSessionFails(i)
    \/ \E k \in DOMAIN sockets : TransportOpen(k)
    \/ \E k \in DOMAIN sockets : TransportError(k)
    \/ \E k \in DOMAIN sockets : TransportClose(k)
    \/ \E k \in DOMAIN sockets : \E data \in FrameData(pushed + 1) : ServerPush(k, data)
    \/ \E k \in DOMAIN sockets : OnMessage(k)
    \/ Render
    \/ handleSendMessage
    \/ Unmount

\* The session channel of one TrainingSession instance.
SpecChannel == Init /\ [][NextChannel]_vars

----------------------------------------------------------------------------
(* Properties of the session channel *)

\* C16: a send on a channel that is not Connected (no session id, socket not
\* yet open, or closed) puts nothing on the wire, throws nothing and leaves
\* the channel's state unchanged; nothing is queued: a frame appears on the
\* wire only on the step of a send made while Connected or on the 'open'
\* step.
C16_SendWhenNotConnected ==
    /\ [][(handleSendMessage /\ ~(connected /\ ws # 0)) =>
             /\ wire' = wire
             /\ sendErrors' = sendErrors
             /\ connected' = connected /\ ws' = ws /\ sockets' = sockets]_vars
    /\ [][wire' # wire =>
             \/ handleSendMessage /\ connected /\ ws # 0
             \/ \E k \in DOMAIN sockets : TransportOpen(k)]_vars

\* the user has sent a message with no session id, and another after the
\* channel was closed
C16_Witness ==
    /\ NumUser(messages) = 2
    /\ wire = <<>>
    /\ sockets # <<>> /\ sockets[1].state = "closed"
    /\ ~connected
\* C17: when a channel is opened with an auth token available, the first
\* frame the client puts on that socket's wire once the transport is
\* established is the auth frame.
C17_AuthFrameFirst ==
    \A k \in DOMAIN sockets :
        (sockets[k].token /\ sockets[k].state = "open") =>
            \E i \in DOMAIN wire :
                /\ wire[i] = [sock |-> k, type |-> "auth"]
                /\ \A j \in 1..(i - 1) : wire[j].sock # k
\* the frames of the 'message' events of socket k that parse, in the order
\* of the events
RECURSIVE ParsedFrames(_, _)
ParsedFrames(events, k) ==
    IF events = <<>> THEN <<>>
    ELSE LET e == Head(events)
         IN  (IF e.sock = k /\ Parses(e.data) THEN <<Parsed(e.data)>> ELSE <<>>)
                 \o ParsedFrames(Tail(events), k)

\* C18: the message log holds exactly the parseable frames the transport has
\* delivered on the channel, in arrival order: none reordered, duplicated,
\* merged or lost.
C18_LogIsFifo ==
    /\ sockets = <<>> => wsMessages = <<>>
    /\ sockets # <<>> => wsMessages = ParsedFrames(delivered, 1)

\* three frames were delivered, the second of which did not parse
C18_Witness ==
    /\ Len(delivered) = 3
    /\ ~Parses(delivered[2].data)
    /\ Len(wsMessages) = 2
    /\ wsMessages[1].seq = 1 /\ wsMessages[2].seq = 3

\* number of ai_response frames in a message log
NumAiResponses(ms) == Cardinality({i \in DOMAIN ms : ms[i].type = "ai_response"})

\* the seq of the ai_response frames of a message log, in order
RECURSIVE AiResponseSeqs(_)
AiResponseSeqs(ms) ==
    IF ms = <<>> THEN <<>>
    ELSE (IF Head(ms).type = "ai_response" THEN <<Head(ms).seq>> ELSE <<>>)
             \o AiResponseSeqs(Tail(ms))

\* the seq of the character's replies in the chat log, in order
RECURSIVE ReplySeqs(_)
ReplySeqs(chat) ==
    IF chat = <<>> THEN <<>>
    ELSE (IF Head(chat).sender = "character" /\ Head(chat).seq # 0
          THEN <<Head(chat).seq>> ELSE <<>>)
             \o ReplySeqs(Tail(chat))

\* C19: once the UI has processed the message log, every ai_response frame
\* of the log has produced exactly one chat entry, in arrival order, and one
\* scoring update; frames of other types have produced none.
C19_EachAiResponseOnce ==
    (mounted /\ rendered.len = Len(wsMessages)) =>
        /\ ReplySeqs(messages) = AiResponseSeqs(wsMessages)
        /\ messagesCount = 1 + NumAiResponses(wsMessages)
\* the state of the channel of session id sid: that of the last socket
\* constructed for it
SocketsOf(socks, sid) == {k \in DOMAIN socks : socks[k].sid = sid}

ChannelState(socks, sid) ==
    IF SocketsOf(socks, sid) = {} THEN "Disconnected"
    ELSE LET k == CHOOSE k \in SocketsOf(socks, sid) : \A j \in SocketsOf(socks, sid) : j <= k
         IN  CASE socks[k].state = "connecting" -> "Connecting"
               [] socks[k].state = "open"       -> "Connected"
               [] OTHER                         -> "Closed"

Rank(state) ==
    CASE state = "Disconnected" -> 0
      [] state = "Connecting"   -> 1
      [] state = "Connected"    -> 2
      [] state = "Closed"       -> 3

\* C20: the channel of a session id only moves forward along Disconnected,
\* Connecting, Connected, Closed; at most one socket is ever constructed for
\* a session id (no reconnection); and the hook reports connected exactly
\* while the channel is Connected.
C20_ChannelMovesForward ==
    /\ [][Rank(ChannelState(sockets', 1)) >= Rank(ChannelState(sockets, 1))]_vars
    /\ [](Cardinality(SocketsOf(sockets, 1)) <= 1)
    /\ [](mounted => (connected <=> ChannelState(sockets, 1) = "Connected"))

\* the channel was Connected, received a frame, and is now Closed
C20_Witness ==
    /\ mounted
    /\ ChannelState(sockets, 1) = "Closed"
    /\ sockets[1].state = "closed"
    /\ wsMessages # <<>>
    /\ ~connected

----------------------------------------------------------------------------
(* The session-creation flow: CharacterSelect.handleSelectCharacter and    *)
(* the mount of TrainingSession (App.tsx), useSessionManager.createSession *)
(* (hooks/useApi.ts).                                                      *)

MaxClicks == 2

\* the application shows the character-select view (a program has been
\* selected, App.tsx:247-248); no TrainingSession has been mounted yet
InitSelect ==
    /\ process = 0
    /\ isRunning = FALSE
    /\ retryCount = 0
    /\ children = <<>>
    /\ timers = <<>>
    /\ appPhase = "boot"
    /\ mainWindow = FALSE
    /\ uiErrors = <<>>
    /\ startOutcome = "none"
    /\ execMissing = FALSE
    /\ restarts = 0
    /\ quits = 0
    /\ poll = NoPoll
    /\ api = NoApi
    /\ mounted = FALSE
    /\ sessionId = 0
    /\ sockets = <<>>
    /\ ws = 0
    /\ connected = FALSE
    /\ wsMessages = <<>>
    /\ rendered = [connected |-> FALSE, ws |-> 0, len |-> 0]
    /\ messages = <<[sender |-> "character", seq |-> 0]>>
    /\ messagesCount = 1
    /\ wire = <<>>
    /\ delivered = <<>>
    /\ pushed = 0
    /\ sendErrors = 0
    /\ currentView = "character-select"
    /\ calls = <<>>
    /\ instance = 0

\* handleSelectCharacter up to its await: the click on a character card
\* issues a createSession() call
handleSelectCharacter ==
    /\ currentView = "character-select"
    /\ NumBy(calls, "select") < MaxClicks
    /\ calls' = Append(calls, [by |-> "select", inst |-> 0, st |-> "inflight", id |-> 0])
    /\ UNCHANGED <<mounted, sessionId, sockets, ws, connected, wsMessages, rendered,
                   messages, messagesCount, wire, delivered, pushed, sendErrors,
                   currentView, instance>>
    /\ UNCHANGED <<svars, api>>

\* a TrainingSession that mounts with the message log of the previous one
SelectSettlesKeepsLog(i, ok) ==
    /\ i \in InFlight(calls)
    /\ calls[i].by = "select"
    /\ currentView' = "session"
    /\ LET cs == [calls EXCEPT ![i].st = IF ok THEN "ok" ELSE "failed",
                               ![i].id = IF ok THEN NumOk(calls) + 1 ELSE 0,
                               ![i].inst = IF currentView = "session" THEN 0
                                           ELSE instance + 1]
       IN  IF currentView = "session"
           THEN /\ calls' = cs
                /\ UNCHANGED <<mounted, instance, sessionId, ws, connected, wsMessages,
                               rendered, messages, messagesCount>>
           ELSE /\ calls' = Append(cs, [by |-> "init", inst |-> instance + 1,
                                        st |-> "inflight", id |-> 0])
                /\ instance' = instance + 1
                /\ mounted' = TRUE
                /\ sessionId' = 0
                /\ ws' = 0
                /\ connected' = FALSE
                /\ wsMessages' = wsMessages
                /\ rendered' = [connected |-> FALSE, ws |-> 0, len |-> 0]
                /\ messages' = <<[sender |-> "character", seq |-> 0]>>
                /\ messagesCount' = 1
    /\ UNCHANGED <<sockets, wire, delivered, pushed, sendErrors>>
    /\ UNCHANGED <<svars, api>>

\* handleSelectCharacter after its await: createSession() call i resolved
\* (ok) or threw; either way setSelectedCharacter and setCurrentView('session').
\* When the view was not the session view, a new TrainingSession instance
\* mounts with fresh state and its mount effect issues a createSession() call.
SelectSettles(i, ok) ==
    /\ i \in InFlight(calls)
    /\ calls[i].by = "select"
    /\ currentView' = "session"
    /\ LET cs == [calls EXCEPT ![i].st = IF ok THEN "ok" ELSE "failed",
                               ![i].id = IF ok THEN NumOk(calls) + 1 ELSE 0,
                               ![i].inst = IF currentView = "session" THEN 0
                                           ELSE instance + 1]
       IN  IF currentView = "session"
           THEN /\ calls' = cs
                /\ UNCHANGED <<mounted, instance, sessionId, ws, connected, wsMessages,
                               rendered, messages, messagesCount>>
           ELSE /\ calls' = Append(cs, [by |-> "init", inst |-> instance + 1,
                                        st |-> "inflight", id |-> 0])
                /\ instance' = instance + 1
                /\ mounted' = TRUE
                /\ sessionId' = 0
                /\ ws' = 0
                /\ connected' = FALSE
                /\ wsMessages' = <<>>
                /\ rendered' = [connected |-> FALSE, ws |-> 0, len |-> 0]
                /\ messages' = <<[sender |-> "character", seq |-> 0]>>
                /\ messagesCount' = 1
    /\ UNCHANGED <<sockets, wire, delivered, pushed, sendErrors>>
    /\ UNCHANGED <<svars, api>>

NextSession ==
    \/ handleSelectCharacter
    \/ \E i \in DOMAIN calls : \E ok \in BOOLEAN : SelectSettles(i, ok)
    \/ \E i \in DOMAIN calls : InitSession(i)
    \/ \E i \in DOMAIN calls : InitSessionFails(i)
    \/ \E k \in DOMAIN sockets : TransportOpen(k)
    \/ \E k \in DOMAIN sockets : TransportError(k)
    \/ \E k \in DOMAIN sockets : TransportClose(k)
    \/ Unmount

\* One user going from the character-select view into training sessions:
\* the createSession() calls, the TrainingSession instances and the sockets
\* they open and close.
SpecSession == InitSelect /\ [][NextSession]_vars

----------------------------------------------------------------------------
(* Properties of the session-creation flow *)

\* the createSession() call whose returned id is `id`
CallOf(cs, id) == {i \in DOMAIN cs : cs[i].st = "ok" /\ cs[i].id = id}

\* C21: every socket is bound to the id returned by a createSession() call
\* that succeeded, issued by the instance that opened the socket; a socket
\* keeps its session id for its whole lifetime; and when a socket is
\* constructed for a session id, every socket of another session id has been
\* closed (close() was called on it or it is closed).
C21_ChannelBoundToSession ==
    /\ [](\A k \in DOMAIN sockets :
              \E i \in CallOf(calls, sockets[k].sid) :
                  calls[i].by = "init" /\ calls[i].inst = sockets[k].inst)
    /\ [][\A k \in DOMAIN sockets : sockets'[k].sid = sockets[k].sid]_vars
    /\ [](\A k \in DOMAIN sockets : \A j \in 1..(k - 1) :
              /\ sockets[j].sid # sockets[k].sid
              /\ sockets[j].state \in {"closing", "closed"})

\* a second training session has its own socket, open, after the first
\* session's socket was closed
C21_Witness ==
    /\ Len(sockets) = 2
    /\ sockets[1].state = "closed"
    /\ sockets[2].state = "open"
    /\ sessionId = sockets[2].sid
    /\ connected

\* C22: session creation is single-flight: at most one createSession()
\* call is in flight at any time.
C22_SingleFlight ==
    Cardinality(InFlight(calls)) <= 1

\* the sessions created for training session n: the createSession() calls
\* that succeeded among the call of the selection that mounted instance n
\* and the call instance n issued on mount
SessionsOf(cs, n) == {i \in DOMAIN cs : cs[i].inst = n /\ cs[i].st = "ok"}

\* C23: from the selection of a character until the session view is left,
\* the session-creation endpoint is called successfully at most once.
C23_OneSessionPerTraining ==
    \A n \in 1..instance : Cardinality(SessionsOf(calls, n)) <= 1
\* The session-creation flow with the user typing messages.  Rendering is
\* left out: an instance without a session has nothing to render, and the
\* sends of an instance with a connected channel are those of SpecChannel.
NextDegraded ==
    \/ NextSession
    \/ handleSendMessage

SpecDegraded == InitSelect /\ [][NextDegraded]_vars

----------------------------------------------------------------------------
(* Further properties of the supervisor *)

\* The application from launch to quit: initializeApp, the child processes,
\* the timers and the user's quit requests; nobody asks for a restart.
NextBoot ==
    \/ InitializeApp
    \/ QuitRequest
    \/ \E c \in DOMAIN children : \E status \in {"exit0", "exit1", "killed"} :
           ChildExit(c, status)
    \/ \E i \in DOMAIN timers : RetryFire(i)
    \/ \E i \in DOMAIN timers : KillFire(i)
    \/ \E i \in DOMAIN timers : ProbeSuccess(i)
    \/ \E i \in DOMAIN timers : ProbeTimeout(i)

SpecBoot == Init /\ [][NextBoot]_vars

\* C25: a start() that rejects during initialisation does not end the
\* application: initializeApp goes on, the main window is created, and the
\* application exits only after the user asked to quit.
C25_InitSurvivesFailedStart ==
    /\ [][\A i \in DOMAIN timers :
             (ProbeTimeout(i) /\ timers[i].by = "init" /\ appPhase = "init") =>
                 appPhase' = "ready" /\ mainWindow']_vars
    /\ [][appPhase' = "exited" => quits' > 0]_vars

\* the executable could not be spawned, start() has rejected, and the
\* application is up with its main window and no backend
C25_Witness ==
    /\ execMissing
    /\ startOutcome = "rejected"
    /\ appPhase = "ready" /\ mainWindow
    /\ ~isRunning /\ Alive(children) = {}
    /\ quits = 0

\* C26: when the health probe times out inside start(), the spawned child is
\* left as it is (not signalled, not forgotten), start() rejects, the
\* supervisor is not reported as Running, and no retry is scheduled.
C26_ProbeTimeoutLeavesChild ==
    [][\A i \in DOMAIN timers :
          ProbeTimeout(i) =>
              /\ children' = children /\ process' = process
              /\ startOutcome' = "rejected"
              /\ NumKind(timers', "retry") = NumKind(timers, "retry")
              /\ retryCount' = retryCount
              /\ ~isRunning']_vars

----------------------------------------------------------------------------
(* waitForBackend() at the grain of its loop.  Time is counted in steps of   *)
(* the poll interval.                                                        *)

PollInterval == 1000

\* the time the model lets pass, in poll intervals
MaxWaitTicks == 40

\* what a liveness request can come back with: a 2xx response, another
\* response, or a rejected fetch (connection refused)
ProbeOutcomes == {"ok", "non2xx", "refused"}

\* the call: startTime is taken, the loop condition holds (0 < timeout) and
\* the first request is issued
waitForBackend ==
    /\ poll.phase = "idle"
    /\ poll' = [phase |-> "request", elapsed |-> 0, failed |-> 0]
    /\ UNCHANGED <<mvars, fvars, api>>

\* a poll interval passes while `await fetch(...)` is pending: nothing bounds
\* the time a request may take
RequestPending ==
    /\ poll.phase = "request"
    /\ poll.elapsed < MaxWaitTicks * PollInterval
    /\ poll' = [poll EXCEPT !.elapsed = @ + PollInterval]
    /\ UNCHANGED <<mvars, fvars, api>>

\* a request whose failure ends the wait
RequestCompletesReportsFailure(outcome) ==
    /\ poll.phase = "request"
    /\ poll' = CASE outcome = "ok"      -> [poll EXCEPT !.phase = "resolved"]
                 [] outcome = "refused" -> [poll EXCEPT !.phase = "rejected",
                                                        !.failed = @ + 1]
                 [] OTHER               -> [poll EXCEPT !.phase = "sleep",
                                                        !.failed = @ + 1]
    /\ UNCHANGED <<mvars, fvars, api>>

\* the pending fetch settles: `return true` on response.ok; a response that
\* is not ok falls through and a rejection is caught by the empty catch, and
\* both go on to the sleep
RequestCompletes(outcome) ==
    /\ poll.phase = "request"
    /\ poll' = IF outcome = "ok"
               THEN [poll EXCEPT !.phase = "resolved"]
               ELSE [poll EXCEPT !.phase = "sleep", !.failed = @ + 1]
    /\ UNCHANGED <<mvars, fvars, api>>

\* the sleep's timer fires and the loop condition is evaluated: the next
\* request, or the throw after the loop
SleepEnds ==
    /\ poll.phase = "sleep"
    /\ LET now == poll.elapsed + PollInterval
       IN  poll' = [poll EXCEPT !.elapsed = now,
                                !.phase = IF now < HealthTimeout
                                          THEN "request" ELSE "rejected"]
    /\ UNCHANGED <<mvars, fvars, api>>

NextProbe ==
    \/ waitForBackend
    \/ RequestPending
    \/ \E outcome \in ProbeOutcomes : RequestCompletes(outcome)
    \/ SleepEnds

\* One call of waitForBackend().
SpecProbe == Init /\ [][NextProbe]_vars

\* The call is made, time passes, and the event loop runs the sleep's timer
\* when it is due; whether and when a request completes is up to the peer.
FairProbe ==
    /\ SpecProbe
    /\ WF_vars(waitForBackend)
    /\ WF_vars(RequestPending)
    /\ WF_vars(SleepEnds)

\* the promise of waitForBackend() has settled
Settled == poll.phase \in {"resolved", "rejected"}

\* C27: a failed liveness request (connection refused or a response that is
\* not 2xx) never settles the wait: it leads to the sleep, after which the
\* next request is issued as long as the deadline has not passed; a 2xx
\* response resolves the wait; and the wait rejects only at the deadline.
C27_FailedProbeSwallowed ==
    /\ [][\A outcome \in ProbeOutcomes :
             RequestCompletes(outcome) =>
                 IF outcome = "ok"
                 THEN poll'.phase = "resolved"
                 ELSE poll'.phase = "sleep" /\ poll'.elapsed = poll.elapsed]_vars
    /\ [][(SleepEnds /\ poll.elapsed + PollInterval < HealthTimeout) =>
             poll'.phase = "request"]_vars
    /\ [][(poll'.phase = "rejected" /\ poll.phase # "rejected") =>
             (poll.phase = "sleep" /\ poll'.elapsed >= HealthTimeout)]_vars

\* the wait has resolved before the deadline after two failed requests
C27_Witness ==
    /\ poll.phase = "resolved"
    /\ poll.failed >= 2
    /\ poll.elapsed < HealthTimeout

\* C28: a call of waitForBackend() always settles, even when a request never
\* completes.
C28_WaitTerminates == (poll.phase # "idle") ~> Settled

----------------------------------------------------------------------------
(* Clean exits *)

\* C29: a child exit with exit code 0 never increments the retry counter and
\* never schedules a retry, whatever the counter's value.
C29_CleanExitNotRetried ==
    [][\A c \in DOMAIN children :
          ChildExit(c, "exit0") =>
              /\ retryCount' = retryCount
              /\ NumKind(timers', "retry") = NumKind(timers, "retry")]_vars

\* the first child crashed and was retried once; the second child, which
\* nobody signalled, has exited with code 0: the counter is still 1 and no
\* retry is pending
C29_Witness ==
    /\ restarts = 0
    /\ Len(children) = 2
    /\ \A c \in DOMAIN children : children[c].st = "exited" /\ children[c].sig = "none"
    /\ retryCount = 1
    /\ NumKind(timers, "retry") = 0

----------------------------------------------------------------------------
(* Frames that do not parse *)

\* a 'message' event of the channel carried a text that did not parse
Dropped(events) == \E i \in DOMAIN events : ~Parses(events[i].data)

\* C30: a frame that fails to parse is dropped: the message log and the
\* channel's state are left as they are and the socket stays open; a
\* parseable frame that arrives after a dropped one is appended to the log.
C30_BadFrameDropped ==
    /\ [][\A k \in DOMAIN sockets :
             (OnMessage(k) /\ ~Parses(Head(sockets[k].inbox))) =>
                 /\ wsMessages' = wsMessages
                 /\ connected' = connected /\ ws' = ws
                 /\ sockets'[k].state = "open"]_vars
    /\ [][\A k \in DOMAIN sockets :
             (OnMessage(k) /\ Dropped(delivered) /\ Parses(Head(sockets[k].inbox))
                 /\ sockets[k].onmessage = "hook" /\ Live(k)) =>
                 wsMessages' = Append(wsMessages, Parsed(Head(sockets[k].inbox)))]_vars

\* the first frame did not parse, the two after it are in the log in order,
\* and the channel is connected
C30_Witness ==
    /\ Len(delivered) = 3
    /\ ~Parses(delivered[1].data)
    /\ Len(wsMessages) = 2
    /\ wsMessages[1].seq = 2 /\ wsMessages[2].seq = 3
    /\ connected /\ ws # 0 /\ sockets[ws].state = "open"

----------------------------------------------------------------------------
(* The kill deadline of stop() *)

\* C31: the SIGKILL sent by the deadline timer of a stop() goes only to the
\* child that was tracked when that stop() was called, never to a child
\* spawned by a later start().
C31_KillTargetsStoppedChild ==
    [][\A i \in DOMAIN timers :
          KillFire(i) =>
              \A c \in DOMAIN children :
                  (children'[c].sig = "kill" /\ children[c].sig # "kill") =>
                      c = timers[i].child]_vars

\* C32: whenever isRunning is true, the child the supervisor tracks is alive.
C32_RunningMeansTrackedAlive ==
    isRunning => process \in Alive(children)

\* C33: the `retrying` flag of a 'backend-error' message is true only if a
\* retry is scheduled for that failure: when a message with retrying = true
\* is sent, a retry timer is pending.
C33_RetryingFlagHonest ==
    [][Len(uiErrors') > Len(uiErrors) =>
          (uiErrors'[Len(uiErrors')] => NumKind(timers', "retry") > 0)]_vars

----------------------------------------------------------------------------
(* Sockets left behind by an earlier TrainingSession *)

\* the sockets opened by the mounted TrainingSession
Current == {k \in DOMAIN sockets : sockets[k].inst = instance}

NextLog ==
    \/ handleSelectCharacter
    \/ \E i \in DOMAIN calls : SelectSettles(i, TRUE)
    \/ \E i \in DOMAIN calls : InitSession(i)
    \/ \E k \in DOMAIN sockets : TransportOpen(k)
    \/ \E k \in DOMAIN sockets : TransportClose(k)
    \/ Unmount
    \/ \E k \in DOMAIN sockets : \E data \in FrameData(pushed + 1) : ServerPush(k, data)
    \/ \E k \in DOMAIN sockets : OnMessage(k)

SpecLog == InitSelect /\ [][NextLog]_vars

C36_NoTransportAfterLeave ==
    \A k \in DOMAIN sockets :
        (~mounted \/ sockets[k].inst # instance) =>
            sockets[k].state \in {"closing", "closed"}

\* the view was left while the mount's createSession() call was in flight;
\* the call has succeeded since and no socket exists for its session
C36_Witness ==
    /\ ~mounted
    /\ \E i \in DOMAIN calls :
           /\ calls[i].by = "init" /\ calls[i].inst = instance /\ calls[i].st = "ok"
           /\ \A k \in DOMAIN sockets : sockets[k].sid # calls[i].id

----------------------------------------------------------------------------
(* The typing indicator *)

\* TrainingSession's isTyping state: setIsTyping(true) is called with every
\* user entry added to the chat log and setIsTyping(false) with every
\* character entry, and nowhere else; the log starts with a character entry
isTyping == messages[Len(messages)].sender = "user"

\* nothing the user wrote has been put on the wire
Untransmitted == \A i \in DOMAIN wire : wire[i].type # "user_message"

\* React renders what is pending, the browser dispatches the events it has
\* queued, and the backend answers the createSession() call and accepts the
\* connection.
FairChannel ==
    /\ SpecChannel
    /\ WF_vars(Render)
    /\ WF_vars(\E i \in DOMAIN calls : InitSession(i))
    /\ WF_vars(\E k \in DOMAIN sockets : TransportOpen(k))
    /\ WF_vars(\E k \in DOMAIN sockets : OnMessage(k))

\* C37: when sending a user message has set the typing indicator, the
\* indicator eventually returns to false, in particular when the message was
\* submitted while the channel was not connected and nothing was transmitted.
\* (Leaving the session view discards the indicator.)
C37_TypingIndicatorClears ==
    (mounted /\ isTyping /\ Untransmitted) ~> (~isTyping \/ ~mounted)

----------------------------------------------------------------------------
(* Quitting while the backend is running *)

\* The event loop runs every timer callback that is due, and a child that
\* was signalled terminates and its 'exit' event is delivered.
FairQuit ==
    /\ SpecQuit
    /\ WF_vars(\E i \in DOMAIN timers : RetryFire(i))
    /\ WF_vars(\E i \in DOMAIN timers : KillFire(i))
    /\ WF_vars(\E c \in DOMAIN children : \E status \in {"exit0", "exit1", "killed"} :
                  children[c].sig # "none" /\ ChildExit(c, status))

\* the 'before-quit' handler has deferred the quit behind a stop()
QuitDeferred == \E i \in DOMAIN timers : timers[i].kind = "kill" /\ timers[i].by = "quit"

\* C38: after a quit requested while isRunning is true, the application
\* eventually quits.
C38_QuitTerminates == QuitDeferred ~> (appPhase = "exited")

----------------------------------------------------------------------------
(* hooks/useApi.ts: useApiCall in one component.  A request is named by its  *)
(* index in api.reqs; the current request is the last one.                   *)

MaxRequests == 3

\* the values the dependency of the hook takes
DepValues == {"a", "b"}

\* the effect's cleanup: isCancelled = true in the closure of the last effect
CancelLast(rs) ==
    IF rs = <<>> THEN rs ELSE [rs EXCEPT ![Len(rs)].cancelled = TRUE]

\* the effect for dependency value d: fetchData() sets loading and clears
\* error, keeping data, and awaits apiCall()
RunEffect(a, d) ==
    [a EXCEPT !.dep = d, !.loading = TRUE, !.error = 0,
              !.reqs = Append(@, [dep |-> d, cancelled |-> FALSE, st |-> "inflight"])]

\* the component mounts: useState's initial value, then the effect
useApiCall(d) ==
    /\ ~api.mounted /\ api.reqs = <<>>
    /\ api' = RunEffect([NoApi EXCEPT !.mounted = TRUE], d)
    /\ UNCHANGED <<svars, fvars>>

\* a render with another dependency value: cleanup of the last effect, then
\* the effect again
DependenciesChange(d) ==
    /\ api.mounted /\ d # api.dep
    /\ Len(api.reqs) < MaxRequests
    /\ api' = RunEffect([api EXCEPT !.reqs = CancelLast(@)], d)
    /\ UNCHANGED <<svars, fvars>>

\* the component unmounts: cleanup of the last effect
ApiUnmount ==
    /\ api.mounted
    /\ api' = [api EXCEPT !.mounted = FALSE, !.reqs = CancelLast(@)]
    /\ UNCHANGED <<svars, fvars>>

\* fetchData without the isCancelled tests
RequestSettlesUnguarded(r, ok) ==
    /\ api.reqs[r].st = "inflight"
    /\ api' = IF ~api.mounted
              THEN [api EXCEPT !.reqs[r].st = "dropped"]
              ELSE IF ok
              THEN [api EXCEPT !.reqs[r].st = "applied",
                               !.data = r, !.loading = FALSE, !.error = 0]
              ELSE [api EXCEPT !.reqs[r].st = "applied",
                               !.data = 0, !.loading = FALSE, !.error = r]
    /\ UNCHANGED <<svars, fvars>>

\* apiCall() of request r resolves (ok) or rejects: the setState calls of
\* fetchData under `if (!isCancelled)`
RequestSettles(r, ok) ==
    /\ api.reqs[r].st = "inflight"
    /\ api' = IF api.reqs[r].cancelled
              THEN [api EXCEPT !.reqs[r].st = "dropped"]
              ELSE IF ok
              THEN [api EXCEPT !.reqs[r].st = "applied",
                               !.data = r, !.loading = FALSE, !.error = 0]
              ELSE [api EXCEPT !.reqs[r].st = "applied",
                               !.data = 0, !.loading = FALSE, !.error = r]
    /\ UNCHANGED <<svars, fvars>>

NextApi ==
    \/ \E d \in DepValues : useApiCall(d)
    \/ \E d \in DepValues : DependenciesChange(d)
    \/ ApiUnmount
    \/ \E r \in DOMAIN api.reqs : \E ok \in BOOLEAN : RequestSettles(r, ok)

\* One component using useApiCall, from mount to unmount.
SpecApi == Init /\ [][NextApi]_vars

\* the request issued for the current dependencies
CurrentRequest == Len(api.reqs)

\* the result or error of a request that is not the current one, or that
\* settles after the unmount, is not written into the hook's state
StaleNeverWritten ==
    [][\A r \in DOMAIN api.reqs : \A ok \in BOOLEAN :
          (RequestSettles(r, ok) /\ (r # CurrentRequest \/ ~api.mounted)) =>
              /\ api'.data = api.data
              /\ api'.error = api.error
              /\ api'.loading = api.loading]_vars

\* C39 as stated: a stale result or error is never written, and data and
\* error only ever reflect the request issued for the current dependencies.
C39_OnlyCurrentRequest ==
    /\ StaleNeverWritten
    /\ [](api.mounted => (api.data \in {0, CurrentRequest}
                            /\ api.error \in {0, CurrentRequest}))

\* C39, amended: a stale result or error is never written; error only ever
\* reflects the current request; data reflects the current request once that
\* request has settled, and until then (loading is true) it may still hold
\* the result that an earlier request wrote before the dependencies changed.
C39_OnlyCurrentRequestOnceLoaded ==
    /\ StaleNeverWritten
    /\ [](api.mounted =>
              /\ api.error \in {0, CurrentRequest}
              /\ ~api.loading => api.data \in {0, CurrentRequest}
              /\ api.data \notin {0, CurrentRequest} =>
                     (api.loading /\ api.reqs[api.data].st = "applied"))

\* the dependencies changed while the first request was in flight; the first
\* request settled afterwards and was dropped, and data is the result of the
\* second request
C39_Witness ==
    /\ api.mounted
    /\ Len(api.reqs) = 2
    /\ api.reqs[1].st = "dropped"
    /\ api.reqs[2].st = "applied"
    /\ api.data = 2 /\ ~api.loading

====
